---------------------------- MODULE Spec2Model ----------------------------
(***************************************************************************)
(* Market scanner front end: the Home page (src/frontend/app/page.tsx) and *)
(* the staking dialog BetModal (src/unnamed/part_001), with the backend    *)
(* they talk to reduced to its three endpoints.                            *)
(*                                                                         *)
(* Number encoding.  JavaScript numbers are modelled exactly:              *)
(*   - odds are held in hundredths          (2.10  -> 210)                 *)
(*   - EV percentages in hundredths of 1%   (4.0%  -> 400)                 *)
(*   - lines (handicaps) in hundredths      (2.5   -> <<250>>), null <<>>  *)
(*   - the Kelly fraction in tenths         (0.5   -> 5)                   *)
(*   - a computed number is an extended rational [n, d]: d > 0 is the      *)
(*     finite value n/d, d = 0 is a non-finite IEEE value (n > 0 Infinity, *)
(*     n < 0 -Infinity, n = 0 NaN).                                        *)
(* Text of the stake field is a sequence of one-character strings.         *)
(***************************************************************************)
EXTENDS Integers, Sequences, FiniteSets, TLC

\* A nullable value is a sequence of at most one element.
None == <<>>
Some(x) == <<x>>

(***************************************************************************)
(* Bounds of the model.                                                    *)
(***************************************************************************)
MaxFeedLen == 1       \* longest feed snapshot the shell specification loads
MaxInFlight == 2      \* backend calls in flight at once

VARIABLES
  \* Home, DATA STATE
  scannerData,   \* Opportunity[]            (page.tsx:37)
  placedBets,    \* PlacedBet[] as a set     (page.tsx:38)
  loading,       \* boolean                  (page.tsx:39)
  lastUpdated,   \* string | null            (page.tsx:40)
  dataAge,       \* unix seconds             (page.tsx:42)
  \* Home, UI STATE
  selectedBet,   \* Opportunity | null       (page.tsx:45)
  bankroll,      \* number                   (page.tsx:46)
  minEv,         \* number, hundredths of 1% (page.tsx:47)
  hidePlaced,    \* boolean                  (page.tsx:48)
  \* BetModal state
  stake,         \* string                   (part_001:15)
  fraction,      \* number, tenths           (part_001:16)
  \* environment
  now,           \* Date.now() / 1000, floored
  serverBets,    \* the backend's position book
  scannerFetch,  \* the /api/opportunities call in flight
  bookFetches,   \* the /api/my-bets calls in flight
  betRequests,   \* the /api/place-bet calls in flight
  mounted,       \* whether the startup effect has run (page.tsx:82-85)
  alertMsg,      \* the alert() box on screen, or None
  \* history
  everLoaded,    \* whether a feed snapshot has been applied (page.tsx:59)
  typed,         \* what the operator last typed into the stake field of
                 \* the open dialog (part_001:92), None if nothing
  confirmed      \* whether Place Bet has been pressed since the dialog was
                 \* opened (part_001:110)

vars == <<scannerData, placedBets, loading, lastUpdated, dataAge, selectedBet,
          bankroll, minEv, hidePlaced, stake, fraction, now, serverBets,
          scannerFetch, bookFetches, betRequests, mounted, alertMsg,
          everLoaded, typed, confirmed>>

homeData == <<scannerData, loading, lastUpdated, dataAge>>
homeUi == <<selectedBet, bankroll, minEv, hidePlaced>>
modalState == <<stake, fraction>>
network == <<serverBets, scannerFetch, bookFetches, betRequests>>
history == <<everLoaded, typed, confirmed>>

(***************************************************************************)
(* Entities.                                                               *)
(***************************************************************************)
Opp(id, match, type, selection, line, odds, ev) ==
  [id |-> id, match |-> match, type |-> type, selection |-> selection,
   line |-> line, danske_odds |-> odds, ev |-> ev]

Bet(match, selection, type, handicap) ==
  [match_name |-> match, selection |-> selection, market_type |-> type,
   handicap |-> handicap]

\* The PlacedBet the backend stores for a place-bet body built from `op`.
BetOf(op) == Bet(op.match, op.selection, op.type, op.line)

(***************************************************************************)
(* 3./4. HELPERS: duplicate and exposure checks (page.tsx:88-102).         *)
(***************************************************************************)
\* === on two nullable numbers: null === null, and numbers by value.
StrictEq(x, y) == x = y

IsNull(x) == x = None

\* A plausible slip, suggested by the comment at page.tsx:93: lines compared
\* with a tolerance of one hundredth.
LineMatchesLoose(handicap, line) ==
  \/ (handicap # None /\ line # None /\ handicap[1] - line[1] \in -1..1)
  \/ (IsNull(handicap) /\ IsNull(line))

\* page.tsx:94
LineMatches(handicap, line) ==
  StrictEq(handicap, line) \/ (IsNull(handicap) /\ IsNull(line))

\* The callback of placedBets.some in isBetPlaced (page.tsx:89-95).
BetMatches(pb, op) ==
  /\ pb.match_name = op.match
  /\ pb.selection = op.selection
  /\ pb.market_type = op.type
  /\ LineMatches(pb.handicap, op.line)

isBetPlaced(op) == \E pb \in placedBets : BetMatches(pb, op)

hasMatchExposure(op) == \E pb \in placedBets : pb.match_name = op.match

\* A "placed" annotation read from the backend's book, not the page's.
RowPlacedFromServer(bet) == \E pb \in serverBets : BetMatches(pb, bet)

\* The row annotations of the table (page.tsx:269-270).
RowPlaced(bet) == isBetPlaced(bet)

RowExposureUnguarded(bet) == hasMatchExposure(bet)

RowExposure(bet) == ~RowPlaced(bet) /\ hasMatchExposure(bet)

(***************************************************************************)
(* 5. FILTER LOGIC (page.tsx:160-166).                                     *)
(***************************************************************************)
FilterKeepStrict(bet) ==
  IF bet.ev <= minEv THEN FALSE
  ELSE IF hidePlaced /\ isBetPlaced(bet) THEN FALSE
  ELSE TRUE

FilterKeep(bet) ==
  IF bet.ev < minEv THEN FALSE
  ELSE IF hidePlaced /\ isBetPlaced(bet) THEN FALSE
  ELSE TRUE

\* A filter that also drops the first opportunity it keeps.
filterDataSkipping(data) ==
  LET kept == SelectSeq(data, FilterKeep)
  IN IF kept = <<>> THEN kept ELSE Tail(kept)

\* Array.prototype.filter with the callback of page.tsx:160-166.
filterData(data) == SelectSeq(data, FilterKeep)

filteredData == filterData(scannerData)

\* The rows the table renders (page.tsx:268-310).
Rows ==
  [i \in 1..Len(filteredData) |->
     [bet |-> filteredData[i],
      placed |-> RowPlaced(filteredData[i]),
      exposure |-> RowExposure(filteredData[i])]]

\* The "No bets match your filters." row (page.tsx:260-266).
EmptyRowShown == Len(filteredData) = 0

\* "Updated: {lastUpdated || "-"}" (page.tsx:199).
UpdatedLabel == IF lastUpdated = None THEN "-" ELSE lastUpdated[1]

(***************************************************************************)
(* Staleness indicator (page.tsx:134-143).                                 *)
(***************************************************************************)
FreshMinutes == 5
AgingMinutes == 15

getStalenessInfoNoSentinel ==
  LET diffMinutes == (now - dataAge) \div 60 IN
    IF diffMinutes < FreshMinutes THEN [color |-> "bg-green-500", text |-> <<"Fresh">>]
    ELSE IF diffMinutes < AgingMinutes
      THEN [color |-> "bg-yellow-500", text |-> <<"Aging", diffMinutes>>]
    ELSE [color |-> "bg-red-500", text |-> <<"Stale", diffMinutes>>]

\* getStalenessInfo with the Aging test turned round.
getStalenessInfoAtTurned(aDataAge, aNow) ==
  IF aDataAge = 0 THEN [color |-> "bg-gray-400", text |-> <<"Unknown">>]
  ELSE LET diffMinutes == (aNow - aDataAge) \div 60 IN
    IF diffMinutes < FreshMinutes THEN [color |-> "bg-green-500", text |-> <<"Fresh">>]
    ELSE IF diffMinutes > AgingMinutes
      THEN [color |-> "bg-yellow-500", text |-> <<"Aging", diffMinutes>>]
    ELSE [color |-> "bg-red-500", text |-> <<"Stale", diffMinutes>>]

\* getStalenessInfo as a function of the dataAge and the clock it reads.
getStalenessInfoAt(aDataAge, aNow) ==
  IF aDataAge = 0 THEN [color |-> "bg-gray-400", text |-> <<"Unknown">>]
  ELSE LET diffMinutes == (aNow - aDataAge) \div 60 IN
    IF diffMinutes < FreshMinutes THEN [color |-> "bg-green-500", text |-> <<"Fresh">>]
    ELSE IF diffMinutes < AgingMinutes
      THEN [color |-> "bg-yellow-500", text |-> <<"Aging", diffMinutes>>]
    ELSE [color |-> "bg-red-500", text |-> <<"Stale", diffMinutes>>]

getStalenessInfo == getStalenessInfoAt(dataAge, now)

(***************************************************************************)
(* JavaScript numbers as extended rationals.                               *)
(***************************************************************************)
Rat(n, d) == [n |-> n, d |-> d]

Sign(n) == IF n > 0 THEN 1 ELSE IF n < 0 THEN -1 ELSE 0

Abs(n) == IF n < 0 THEN -n ELSE n

RECURSIVE Gcd(_, _)
Gcd(m, n) == IF n = 0 THEN m ELSE Gcd(n, m % n)

\* One representative per value: finite values in lowest terms, non-finite
\* values by their sign (Infinity, -Infinity, NaN).
Norm(x) ==
  IF x.d = 0 THEN Rat(Sign(x.n), 0)
  ELSE LET g == Gcd(Abs(x.n), x.d) IN Rat(x.n \div g, x.d \div g)

NaN == Rat(0, 0)
IsFinite(x) == x.d > 0

\* x > 0 (false for NaN).
Gt0(x) == x.n > 0

\* x / y for a finite x: a zero divisor gives Infinity, -Infinity or NaN.
Div(x, y) ==
  LET n == x.n * y.d
      d == x.d * y.n
  IN Norm(IF d < 0 THEN Rat(-n, -d) ELSE Rat(n, d))

Mul(x, y) == Norm(Rat(x.n * y.n, x.d * y.d))

\* Math.floor(x - 0.5) in the place of Math.round(x).
MathRoundBelow(x) ==
  IF x.d = 0 THEN x ELSE Rat((2 * x.n - x.d) \div (2 * x.d), 1)

\* Math.round: nearest integer, halves towards +Infinity; non-finite as is.
MathRound(x) ==
  IF x.d = 0 THEN x ELSE Rat((2 * x.n + x.d) \div (2 * x.d), 1)

(***************************************************************************)
(* Number.prototype.toString and parseFloat on the stake field's text.     *)
(***************************************************************************)
DigitChars == <<"0", "1", "2", "3", "4", "5", "6", "7", "8", "9">>

IsDigit(c) == \E k \in 1..10 : DigitChars[k] = c

DigitVal(c) == (CHOOSE k \in 1..10 : DigitChars[k] = c) - 1

RECURSIVE Digits(_)
Digits(n) ==
  IF n < 10 THEN <<DigitChars[n + 1]>>
  ELSE Digits(n \div 10) \o <<DigitChars[(n % 10) + 1]>>

\* toString of a rounded number.
NumToString(x) ==
  IF x.d = 0
    THEN (IF x.n > 0 THEN <<"Infinity">>
          ELSE IF x.n < 0 THEN <<"-Infinity">> ELSE <<"NaN">>)
  ELSE IF x.n < 0 THEN <<"-">> \o Digits(-x.n)
  ELSE Digits(x.n)

\* Length of the run of digits `str` starts with.
RECURSIVE DigitRun(_)
DigitRun(str) ==
  IF str = <<>> \/ ~IsDigit(Head(str)) THEN 0 ELSE 1 + DigitRun(Tail(str))

RECURSIVE DigitsValue(_, _)
DigitsValue(str, acc) ==
  IF str = <<>> THEN acc
  ELSE DigitsValue(Tail(str), 10 * acc + DigitVal(Head(str)))

RECURSIVE Pow10(_)
Pow10(k) == IF k = 0 THEN 1 ELSE 10 * Pow10(k - 1)

\* parseFloat: optional sign, digits, optional "." and digits; the rest of
\* the text is ignored; no digit at all gives NaN.
parseFloat(str) ==
  LET signed == Len(str) > 0 /\ str[1] \in {"-", "+"}
      neg == Len(str) > 0 /\ str[1] = "-"
      body == IF signed THEN Tail(str) ELSE str
      ni == DigitRun(body)
      afterInt == SubSeq(body, ni + 1, Len(body))
      hasDot == Len(afterInt) > 0 /\ afterInt[1] = "."
      fracSeq == IF hasDot THEN Tail(afterInt) ELSE <<>>
      nf == DigitRun(fracSeq)
      mag == DigitsValue(SubSeq(body, 1, ni) \o SubSeq(fracSeq, 1, nf), 0)
  IN IF ni + nf = 0 THEN NaN
     ELSE Norm(Rat(IF neg THEN -mag ELSE mag, Pow10(nf)))

(***************************************************************************)
(* BetModal: props and the Kelly calculation (part_001:13-28).  The values *)
(* of a render are functions of the props and state that render sees, so   *)
(* each takes them as parameters: aBet is the bet prop, aFraction the      *)
(* fraction state, aBankroll the currentBankroll prop.                     *)
(***************************************************************************)
bet == selectedBet                 \* bet={selectedBet}        (page.tsx:318)
isOpen == selectedBet # None       \* isOpen={!!selectedBet}   (page.tsx:319)
currentBankroll == bankroll        \* currentBankroll={bankroll}

b(aBet) ==
  IF aBet # None THEN Norm(Rat(aBet[1].danske_odds - 100, 100)) ELSE Rat(0, 1)

evDecimal(aBet) ==
  IF aBet # None THEN Norm(Rat(aBet[1].ev, 100 * 100)) ELSE Rat(0, 1)

fullKellyPercentUnguarded(aBet) == Div(evDecimal(aBet), b(aBet))

\* Avoid division by zero
fullKellyPercent(aBet) ==
  IF Gt0(b(aBet)) THEN Div(evDecimal(aBet), b(aBet)) ELSE Rat(0, 1)

adjustedKellyPercent(aBet, aFraction) ==
  Mul(fullKellyPercent(aBet), Norm(Rat(aFraction, 10)))

suggestedStakeCapped(aBet, aFraction, aBankroll) ==
  LET s == MathRound(Mul(Rat(aBankroll, 1), adjustedKellyPercent(aBet, aFraction)))
  IN IF IsFinite(s) /\ s.n > aBankroll THEN Rat(aBankroll, 1) ELSE s

suggestedStake(aBet, aFraction, aBankroll) ==
  MathRound(Mul(Rat(aBankroll, 1), adjustedKellyPercent(aBet, aFraction)))

\* The suggestion the dialog shows in the current state (part_001:97).
Suggestion == suggestedStake(bet, fraction, currentBankroll)

(***************************************************************************)
(* BetModal: the effect that pre-fills the stake (part_001:31-35).  It     *)
(* runs after a render in which one of its dependencies changed.           *)
(***************************************************************************)
EffectDeps(aBet, aFraction, aBankroll) ==
  <<aBet, aFraction, aBankroll, aBet # None,
    suggestedStake(aBet, aFraction, aBankroll)>>

\* The stake field after the render that follows a step which leaves `base`
\* in the field, newBet in selectedBet and newFraction in fraction.
StakeAfterRender(base, newBet, newFraction) ==
  IF /\ EffectDeps(newBet, newFraction, bankroll)
          # EffectDeps(bet, fraction, bankroll)
     /\ newBet # None
     /\ Gt0(suggestedStake(newBet, newFraction, bankroll))
    THEN NumToString(suggestedStake(newBet, newFraction, bankroll))
  ELSE base

(***************************************************************************)
(* The inputs of the shell specification.                                  *)
(***************************************************************************)
OppOver25 == Opp("1", "A vs B", "Total", "Over", Some(250), 210, 400)
OppHomeWin == Opp("2", "A vs B", "Moneyline", "A", None, 180, 200)
OppOver251 == Opp("3", "A vs B", "Total", "Over", Some(251), 210, 150)
OppEvens == Opp("4", "C vs D", "Moneyline", "C", None, 100, 500)
OppOverNoLine == Opp("5", "A vs B", "Total", "Over", None, 95, 200)

\* Feed snapshots: at most n opportunities of S, ids unique in a snapshot.
Feeds(S, n) ==
  UNION {{f \in [1..k -> S] : \A i, j \in 1..k : i # j => f[i].id # f[j].id}
           : k \in 0..n}

ShellOpps == {OppOver25, OppEvens}
ShellFeeds == Feeds(ShellOpps, MaxFeedLen)
\* The backend's book when the page opens: one bet on another market of
\* the first match.
ShellBook == {BetOf(OppHomeWin)}
ShellMinEvs == {200, 500}
ShellFractions == {5, 10}
StakeInputs == {<<"7", ".", "5">>}
StartTime == 1000

\* A /api/my-bets call in flight: pending, then answered ("ok", with the
\* book) or failed.  `cause` is the bet whose confirmation issued the call,
\* None for the call of the startup effect.
Call(status, data, cause) == [state |-> status, data |-> data, cause |-> cause]

RemoveAt(seq, i) == SubSeq(seq, 1, i - 1) \o SubSeq(seq, i + 1, Len(seq))

\* The backend calls in flight.
InFlight ==
  (IF scannerFetch = "idle" THEN 0 ELSE 1) + Len(bookFetches) + Len(betRequests)

\* alert() blocks the page's thread until the operator dismisses the box:
\* no handler and no continuation runs while one is on screen.
Running == mounted /\ alertMsg = None

(***************************************************************************)
(* Home: state after construction (page.tsx:37-48, part_001:15-16).        *)
(***************************************************************************)
Init ==
  /\ scannerData = <<>>
  /\ placedBets = {}
  /\ loading = FALSE
  /\ lastUpdated = None
  /\ dataAge = 0
  /\ selectedBet = None
  /\ bankroll = 1000
  /\ minEv = 200
  /\ hidePlaced = FALSE
  /\ stake = <<>>
  /\ fraction = 5
  /\ now = StartTime
  /\ serverBets = ShellBook
  /\ scannerFetch = "idle"
  /\ bookFetches = <<>>
  /\ betRequests = <<>>
  /\ mounted = FALSE
  /\ alertMsg = None
  /\ everLoaded = FALSE
  /\ typed = None
  /\ confirmed = FALSE

\* "Load both on startup" (page.tsx:82-85): fetchScanner(false) up to its
\* await, then fetchPlacedBets() up to its await.
Mount ==
  /\ ~mounted
  /\ mounted' = TRUE
  /\ loading' = TRUE
  /\ scannerFetch' = "pending"
  /\ bookFetches' = Append(bookFetches, Call("pending", {}, None))
  /\ UNCHANGED <<scannerData, placedBets, lastUpdated, dataAge, homeUi,
                 modalState, now, serverBets, betRequests, alertMsg, history>>

\* The Refresh Data button (page.tsx:191-197), disabled while loading and
\* covered by the dialog's overlay (part_001:42) while the dialog is open.
ClickRefresh ==
  /\ Running /\ ~loading /\ ~isOpen
  /\ InFlight < MaxInFlight
  /\ loading' = TRUE
  /\ scannerFetch' = "pending"
  /\ UNCHANGED <<scannerData, placedBets, lastUpdated, dataAge, homeUi,
                 modalState, now, serverBets, bookFetches, betRequests,
                 mounted, alertMsg, history>>

\* fetchScanner without its setLastUpdated.
FetchScannerSettlesNoStamp ==
  /\ Running
  /\ scannerFetch \in {"ok", "failed"}
  /\ scannerFetch' = "idle"
  /\ loading' = FALSE
  /\ IF scannerFetch = "ok"
       THEN /\ scannerData' \in ShellFeeds
            /\ dataAge' = now
            /\ everLoaded' = TRUE
            /\ UNCHANGED lastUpdated
       ELSE UNCHANGED <<scannerData, lastUpdated, dataAge, everLoaded>>
  /\ UNCHANGED <<placedBets, homeUi, modalState, now, serverBets,
                 bookFetches, betRequests, mounted, alertMsg, typed,
                 confirmed>>

\* fetchScanner after its awaits (page.tsx:58-67); the body of an answer
\* is any feed snapshot, stamped by the backend.
FetchScannerSettles ==
  /\ Running
  /\ scannerFetch \in {"ok", "failed"}
  /\ scannerFetch' = "idle"
  /\ loading' = FALSE
  /\ IF scannerFetch = "ok"
       THEN /\ scannerData' \in ShellFeeds
            /\ lastUpdated' = Some("time")
            /\ dataAge' = now
            /\ everLoaded' = TRUE
       ELSE \* catch: console.error(err)
            UNCHANGED <<scannerData, lastUpdated, dataAge, everLoaded>>
  /\ UNCHANGED <<placedBets, homeUi, modalState, now, serverBets,
                 bookFetches, betRequests, mounted, alertMsg, typed,
                 confirmed>>

\* fetchPlacedBets after its awaits (page.tsx:74-78), for the i-th call in
\* flight: responses may arrive in any order.
FetchPlacedBetsSettles(i) ==
  /\ Running
  /\ bookFetches[i].state \in {"ok", "failed"}
  /\ bookFetches' = RemoveAt(bookFetches, i)
  /\ IF bookFetches[i].state = "ok"
       THEN placedBets' = bookFetches[i].data
       ELSE \* catch: console.error("Error fetching placed bets")
            UNCHANGED placedBets
  /\ UNCHANGED <<homeData, homeUi, modalState, now, serverBets,
                 scannerFetch, betRequests, mounted, alertMsg, history>>

(***************************************************************************)
(* The table and the filter bar (page.tsx:213-242, 268-280).  The dialog's *)
(* overlay (part_001:42) covers them while the dialog is open.             *)
(***************************************************************************)
\* onClick={() => !placed && setSelectedBet(bet)} on the i-th rendered row.
RowClick(i) ==
  /\ Running /\ ~isOpen
  /\ i \in DOMAIN Rows
  /\ ~Rows[i].placed
  /\ selectedBet' = Some(Rows[i].bet)
  /\ UNCHANGED <<bankroll, minEv, hidePlaced, fraction>>
  /\ stake' = StakeAfterRender(stake, Some(Rows[i].bet), fraction)
  /\ typed' = None
  /\ confirmed' = FALSE
  /\ UNCHANGED <<homeData, placedBets, now, network, mounted, alertMsg,
                 everLoaded>>

\* The Min EV slider.
SetMinEv(v) ==
  /\ Running /\ ~isOpen
  /\ minEv' = v
  /\ UNCHANGED <<homeData, placedBets, selectedBet, bankroll, hidePlaced,
                 modalState, now, network, mounted, alertMsg, history>>

\* The Hide Already Placed checkbox.
SetHidePlaced(checked) ==
  /\ Running /\ ~isOpen
  /\ hidePlaced' = checked
  /\ UNCHANGED <<homeData, placedBets, selectedBet, bankroll, minEv,
                 modalState, now, network, mounted, alertMsg, history>>

(***************************************************************************)
(* The staking dialog (part_001:41-118).                                   *)
(***************************************************************************)
\* onClose: the X and Cancel buttons (page.tsx:320).
ModalClose ==
  /\ Running /\ isOpen
  /\ selectedBet' = None
  /\ UNCHANGED <<bankroll, minEv, hidePlaced, fraction>>
  /\ stake' = StakeAfterRender(stake, None, fraction)
  /\ typed' = None
  /\ confirmed' = FALSE
  /\ UNCHANGED <<homeData, placedBets, now, network, mounted, alertMsg,
                 everLoaded>>

\* The Kelly fraction slider (part_001:76-82).
SetFraction(f) ==
  /\ Running /\ isOpen
  /\ fraction' = f
  /\ UNCHANGED homeUi
  /\ stake' = StakeAfterRender(stake, selectedBet, f)
  /\ UNCHANGED <<homeData, placedBets, now, network, mounted, alertMsg,
                 history>>

\* The stake input (part_001:89-94).
EditStake(text) ==
  /\ Running /\ isOpen
  /\ UNCHANGED <<homeUi, fraction>>
  /\ stake' = StakeAfterRender(text, selectedBet, fraction)
  /\ typed' = Some(text)
  /\ UNCHANGED confirmed
  /\ UNCHANGED <<homeData, placedBets, now, network, mounted, alertMsg,
                 everLoaded>>

\* The body handleConfirmBet posts (page.tsx:110-119).
BetBody(op, amount) ==
  [match_name |-> op.match, selection |-> op.selection,
   market_type |-> op.type, handicap |-> op.line,
   danske_odds |-> op.danske_odds, ev_percent |-> op.ev, stake |-> amount]

\* A /api/place-bet call in flight: pending with its body, then answered:
\* "ok" (what the backend recorded is kept), "notok" or "failed".
BetRequest(status, body, recorded) ==
  [state |-> status, body |-> body, recorded |-> recorded]

\* What Place Bet hands to onConfirm (part_001:110).
ConfirmedStakeSuggested == Suggestion

ConfirmedStake == parseFloat(stake)

\* Place Bet (part_001:109-111): handleConfirmBet up to its await
\* (page.tsx:104-120).
ClickPlaceBet ==
  /\ Running /\ isOpen
  /\ InFlight < MaxInFlight
  /\ betRequests' =
       Append(betRequests,
              BetRequest("pending",
                         Some(BetBody(selectedBet[1], ConfirmedStake)), None))
  /\ UNCHANGED <<homeData, placedBets, homeUi, modalState, now, serverBets,
                 scannerFetch, bookFetches, mounted, alertMsg, everLoaded,
                 typed>>
  /\ confirmed' = TRUE

\* handleConfirmBet without the fetchPlacedBets() of its success branch.
HandleConfirmBetSettlesNoRefresh(i) ==
  /\ Running
  /\ betRequests[i].state \in {"ok", "notok", "failed"}
  /\ betRequests' = RemoveAt(betRequests, i)
  /\ CASE betRequests[i].state = "ok" ->
            /\ selectedBet' = None
            /\ stake' = StakeAfterRender(stake, None, fraction)
            /\ alertMsg' = Some("Bet placed!")
            /\ UNCHANGED bookFetches
       [] betRequests[i].state = "notok" ->
            UNCHANGED <<selectedBet, stake, bookFetches, alertMsg>>
       [] betRequests[i].state = "failed" ->
            /\ alertMsg' = Some("Failed to connect")
            /\ UNCHANGED <<selectedBet, stake, bookFetches>>
  /\ UNCHANGED <<bankroll, minEv, hidePlaced, fraction>>
  /\ UNCHANGED <<homeData, placedBets, now, serverBets, scannerFetch,
                 mounted, everLoaded>>
  /\ typed' = IF selectedBet' = None THEN None ELSE typed
  /\ confirmed' = IF selectedBet' = None THEN FALSE ELSE confirmed

\* handleConfirmBet after its await (page.tsx:122-130), for the i-th
\* request in flight.
HandleConfirmBetSettles(i) ==
  /\ Running
  /\ betRequests[i].state \in {"ok", "notok", "failed"}
  /\ betRequests' = RemoveAt(betRequests, i)
  /\ CASE betRequests[i].state = "ok" ->
            /\ selectedBet' = None
            /\ stake' = StakeAfterRender(stake, None, fraction)
            /\ bookFetches' =
                 Append(bookFetches,
                        Call("pending", {}, betRequests[i].recorded))
            /\ alertMsg' = Some("Bet placed!")
       [] betRequests[i].state = "notok" ->
            \* no else branch: nothing is shown
            UNCHANGED <<selectedBet, stake, bookFetches, alertMsg>>
       [] betRequests[i].state = "failed" ->
            /\ alertMsg' = Some("Failed to connect")
            /\ UNCHANGED <<selectedBet, stake, bookFetches>>
  /\ UNCHANGED <<bankroll, minEv, hidePlaced, fraction>>
  /\ UNCHANGED <<homeData, placedBets, now, serverBets, scannerFetch,
                 mounted, everLoaded>>
  /\ typed' = IF selectedBet' = None THEN None ELSE typed
  /\ confirmed' = IF selectedBet' = None THEN FALSE ELSE confirmed

(***************************************************************************)
(* The backend and the clock.                                              *)
(***************************************************************************)
\* The operator dismisses the alert box.
DismissAlert ==
  /\ alertMsg # None
  /\ alertMsg' = None
  /\ UNCHANGED <<homeData, placedBets, homeUi, modalState, now, network,
                 mounted, history>>

\* GET /api/opportunities answers, or the call fails.
ServeScanner ==
  /\ alertMsg = None
  /\ scannerFetch = "pending"
  /\ scannerFetch' \in {"ok", "failed"}
  /\ UNCHANGED <<homeData, placedBets, homeUi, modalState, now, serverBets,
                 bookFetches, betRequests, mounted, alertMsg, history>>

\* GET /api/my-bets answers with the whole book, or the call fails.
ServeBook(i) ==
  /\ alertMsg = None
  /\ i \in DOMAIN bookFetches
  /\ bookFetches[i].state = "pending"
  /\ \/ bookFetches' =
          [bookFetches EXCEPT ![i] = Call("ok", serverBets, @.cause)]
     \/ bookFetches' = [bookFetches EXCEPT ![i] = Call("failed", {}, @.cause)]
  /\ UNCHANGED <<homeData, placedBets, homeUi, modalState, now, serverBets,
                 scannerFetch, betRequests, mounted, alertMsg, history>>

\* POST /api/place-bet records the bet and answers 2xx, or answers with an
\* error status, or the call fails.
ServeBet(i) ==
  /\ alertMsg = None
  /\ i \in DOMAIN betRequests
  /\ betRequests[i].state = "pending"
  /\ LET body == betRequests[i].body[1]
         record == Bet(body.match_name, body.selection, body.market_type,
                       body.handicap)
     IN \/ /\ betRequests' =
                [betRequests EXCEPT ![i] = BetRequest("ok", None, Some(record))]
           /\ serverBets' = serverBets \cup {record}
        \/ /\ betRequests' =
                [betRequests EXCEPT ![i] = BetRequest("notok", None, None)]
           /\ UNCHANGED serverBets
        \/ /\ betRequests' =
                [betRequests EXCEPT ![i] = BetRequest("failed", None, None)]
           /\ UNCHANGED serverBets
  /\ UNCHANGED <<homeData, placedBets, homeUi, modalState, now,
                 scannerFetch, bookFetches, mounted, alertMsg, history>>

Next ==
  \/ Mount
  \/ ClickRefresh
  \/ FetchScannerSettles
  \/ \E i \in DOMAIN bookFetches : FetchPlacedBetsSettles(i)
  \/ \E i \in DOMAIN Rows : RowClick(i)
  \/ \E v \in ShellMinEvs : SetMinEv(v)
  \/ \E checked \in BOOLEAN : SetHidePlaced(checked)
  \/ ModalClose
  \/ \E f \in ShellFractions : SetFraction(f)
  \/ \E text \in StakeInputs : EditStake(text)
  \/ ClickPlaceBet
  \/ \E i \in DOMAIN betRequests : HandleConfirmBetSettles(i)
  \/ DismissAlert
  \/ ServeScanner
  \/ \E i \in DOMAIN bookFetches : ServeBook(i)
  \/ \E i \in DOMAIN betRequests : ServeBet(i)

Spec == Init /\ [][Next]_vars

(***************************************************************************)
(* Specifications of the pure parts: the page loaded and idle, the inputs  *)
(* of the part under study drawn from wider sets.                          *)
(***************************************************************************)
\* The Min EV slider: min 0, max 10, step 0.5 (page.tsx:219).
SliderValues == {50 * k : k \in 0..20}

\* The Kelly slider: min 0.1, max 1, step 0.1 (part_001:78).
FractionValues == 1..10

MaxCoreFeedLen == 3   \* longest feed snapshot of the filter specification
MaxBookSize == 2      \* largest position book of the filter specification
OddsSpan == 10        \* offered odds around 1.00 of the staking specification
MaxElapsed == 1000    \* oldest feed of the freshness specification, seconds
MaxTicks == 3         \* clock ticks of the freshness specification

CoreOpps == {OppOver25, OppHomeWin, OppOver251, OppEvens, OppOverNoLine}
CoreBets ==
  {BetOf(OppOver25), BetOf(OppHomeWin), BetOf(OppOverNoLine),
   Bet("A vs B", "Under", "Total", Some(250)),
   Bet("C vs D", "Over", "Total", Some(250))}

\* The page idle after a load, nothing in flight, the dialog closed.
Settled ==
  /\ loading = FALSE
  /\ lastUpdated = Some("time")
  /\ serverBets = placedBets
  /\ scannerFetch = "idle"
  /\ bookFetches = <<>>
  /\ betRequests = <<>>
  /\ mounted = TRUE
  /\ alertMsg = None
  /\ everLoaded = TRUE
  /\ typed = None
  /\ confirmed = FALSE

\* Exposure detector and filter: any feed, book, threshold and hide flag.
InitCore ==
  /\ scannerData \in Feeds(CoreOpps, MaxCoreFeedLen)
  /\ placedBets \in {book \in SUBSET CoreBets : Cardinality(book) <= MaxBookSize}
  /\ minEv \in SliderValues
  /\ hidePlaced \in BOOLEAN
  /\ dataAge = StartTime
  /\ now = StartTime
  /\ selectedBet = None
  /\ stake = <<>>
  /\ fraction = 5
  /\ bankroll = 1000
  /\ Settled

NextCore ==
  \/ \E v \in SliderValues : SetMinEv(v)
  \/ \E checked \in BOOLEAN : SetHidePlaced(checked)

SpecCore == InitCore /\ [][NextCore]_vars

\* Staking dialog: open on any opportunity, any bankroll and fraction.
KellyOdds == (100 - OddsSpan)..(100 + OddsSpan) \cup {150, 210, 500}
KellyEvs == {-400, 0, 1, 150, 400, 2500, 30000}
KellyBankrolls == {0, 100, 1000}

InitKelly ==
  /\ \E odds \in KellyOdds, ev \in KellyEvs :
       /\ selectedBet = Some(Opp("1", "A vs B", "Total", "Over", Some(250), odds, ev))
       /\ scannerData = selectedBet
  /\ fraction \in FractionValues
  /\ stake = <<>>
  /\ placedBets = {}
  /\ minEv = 0
  /\ hidePlaced = FALSE
  /\ dataAge = StartTime
  /\ now = StartTime
  /\ Settled
  /\ bankroll \in KellyBankrolls

NextKelly ==
  \/ \E f \in FractionValues : SetFraction(f)
  \/ \E text \in StakeInputs : EditStake(text)

SpecKelly == InitKelly /\ [][NextKelly]_vars

\* Freshness grader: any feed age, the clock running.
Tick ==
  /\ now < StartTime + MaxTicks
  /\ now' = now + 1
  /\ UNCHANGED <<homeData, placedBets, homeUi, modalState, network, mounted,
                 alertMsg, history>>

InitGrader ==
  /\ dataAge \in (StartTime - MaxElapsed)..(StartTime + 60)
  /\ now = StartTime
  /\ scannerData = <<>>
  /\ placedBets = {}
  /\ minEv = 200
  /\ hidePlaced = FALSE
  /\ selectedBet = None
  /\ stake = <<>>
  /\ fraction = 5
  /\ bankroll = 1000
  /\ Settled

NextGrader == Tick

SpecGrader == InitGrader /\ [][NextGrader]_vars

(***************************************************************************)
(* Properties.                                                             *)
(***************************************************************************)
\* The Matching Key of the data model: (match, market type, selection, line).
KeyOfBet(pb) == <<pb.match_name, pb.market_type, pb.selection, pb.handicap>>
KeyOfOpp(op) == <<op.match, op.type, op.selection, op.line>>

FeedOpps == {scannerData[i] : i \in DOMAIN scannerData}

\* C1: every opportunity of the feed is annotated "placed" exactly when some
\* placed bet has its Matching Key, "exposure" exactly when none has its key
\* but some placed bet is on the same match, and neither otherwise; never
\* both; and with an empty book no opportunity gets either annotation.
C1_ExposureClassification ==
  \A op \in FeedOpps :
    LET keyMatch == \E pb \in placedBets : KeyOfBet(pb) = KeyOfOpp(op)
        nameMatch == \E pb \in placedBets : pb.match_name = op.match
    IN /\ RowPlaced(op) <=> keyMatch
       /\ RowExposure(op) <=> (~keyMatch /\ nameMatch)
       /\ ~(RowPlaced(op) /\ RowExposure(op))
       /\ placedBets = {} => (~RowPlaced(op) /\ ~RowExposure(op))

\* An opportunity with an exact key match in the book (so the match-name
\* condition holds too) beside one that is only on the same match.
C1_Witness ==
  /\ \E op \in FeedOpps : BetOf(op) \in placedBets /\ RowPlaced(op)
  /\ \E op \in FeedOpps : BetOf(op) \notin placedBets /\ RowExposure(op)

C4_StakeIsRoundedKelly ==
  (selectedBet # None /\ selectedBet[1].danske_odds > 100) =>
    LET xn == bankroll * selectedBet[1].ev * fraction
        xd == 1000 * (selectedBet[1].danske_odds - 100)
    IN /\ Suggestion.d = 1
       /\ 2 * xn - xd < 2 * Suggestion.n * xd
       /\ 2 * Suggestion.n * xd <= 2 * xn + xd
       /\ (/\ selectedBet[1].danske_odds = 210 /\ selectedBet[1].ev = 400
           /\ bankroll = 1000 /\ fraction = 5) => Suggestion.n = 18

\* A large edge at short odds: the suggestion exceeds the bankroll.
C4_Witness ==
  /\ selectedBet # None /\ selectedBet[1].danske_odds > 100
  /\ bankroll > 0
  /\ Suggestion.d = 1 /\ Suggestion.n > bankroll

\* C5: with offered odds of 1 or less the suggestion is 0 whatever the EV,
\* bankroll and fraction, and every value of the calculation is finite (no
\* division by the zero or negative net odds has happened).
C5_ZeroGuard ==
  (selectedBet # None /\ selectedBet[1].danske_odds <= 100) =>
    /\ Suggestion = Rat(0, 1)
    /\ IsFinite(fullKellyPercent(bet))
    /\ IsFinite(adjustedKellyPercent(bet, fraction))

\* Net odds of exactly zero with a positive edge and a positive bankroll.
C5_Witness ==
  /\ selectedBet # None /\ selectedBet[1].danske_odds = 100
  /\ selectedBet[1].ev > 0 /\ bankroll > 0
  /\ Suggestion = Rat(0, 1)

\* C6: a reference timestamp of 0 grades Unknown; any other grades Fresh
\* under 300 elapsed seconds (under 5 whole minutes), Aging from 300 to 899,
\* Stale from 900 on; 900 s old is Stale and 299 s old is Fresh.
Tier == getStalenessInfo.text[1]

C6_FreshnessTiers ==
  LET elapsed == now - dataAge IN
    /\ dataAge = 0 => Tier = "Unknown"
    /\ (dataAge # 0 /\ elapsed < 300) => Tier = "Fresh"
    /\ (dataAge # 0 /\ elapsed >= 300 /\ elapsed < 900) =>
         (Tier = "Aging" /\ getStalenessInfo.text[2] * 60 <= elapsed
          /\ elapsed < (getStalenessInfo.text[2] + 1) * 60)
    /\ (dataAge # 0 /\ elapsed >= 900) => Tier = "Stale"

\* Scenario D: a feed exactly 900 s old, graded Stale.
C6_Witness == dataAge # 0 /\ now - dataAge = 900 /\ Tier = "Stale"

\* C7: whenever a place-bet request that was answered with success is
\* settled, the shell issues a position-book fetch; and when the fetch a
\* recorded bet gave rise to is answered and settled, the bet is in the
\* book the rows are annotated against.
C7_RefreshAfterPlaceBet ==
  [][/\ \A i \in DOMAIN betRequests :
          (betRequests[i].state = "ok" /\ betRequests' = RemoveAt(betRequests, i))
            => /\ Len(bookFetches') = Len(bookFetches) + 1
               /\ bookFetches'[Len(bookFetches')] =
                    Call("pending", {}, betRequests[i].recorded)
     /\ \A i \in DOMAIN bookFetches :
          (/\ bookFetches[i].state = "ok"
           /\ bookFetches[i].cause # None
           /\ bookFetches' = RemoveAt(bookFetches, i))
            => bookFetches[i].cause[1] \in placedBets'
    ]_vars

\* An opportunity of the feed whose bet was not in the book at startup is
\* annotated "placed" while no request or fetch is in flight.
C7_Witness ==
  /\ InFlight = 0
  /\ \E op \in FeedOpps :
       BetOf(op) \notin ShellBook /\ BetOf(op) \in placedBets /\ RowPlaced(op)

\* C8: every failure the shell takes delivery of (a failed opportunity
\* fetch, a failed position-book fetch, a place-bet call that failed or was
\* answered with an error status) puts a message in front of the operator.
C8_FailuresSurfaced ==
  [][(\/ scannerFetch = "failed" /\ scannerFetch' = "idle"
      \/ \E i \in DOMAIN bookFetches :
           bookFetches[i].state = "failed" /\ bookFetches' = RemoveAt(bookFetches, i)
      \/ \E i \in DOMAIN betRequests :
           /\ betRequests[i].state \in {"notok", "failed"}
           /\ betRequests' = RemoveAt(betRequests, i))
       => alertMsg' # None
    ]_vars

\* C9: while no snapshot has been loaded the header reads "Updated: -"; an
\* empty table after a snapshot has been loaded never does, so the two are
\* told apart (the table's empty row itself reads the same in both).
C9_EmptyDistinctFromNotLoaded ==
  /\ ~everLoaded => (EmptyRowShown /\ UpdatedLabel = "-")
  /\ (everLoaded /\ EmptyRowShown) => UpdatedLabel # "-"

\* A loaded, non-empty snapshot of which no opportunity passes the filters.
C9_Witness ==
  /\ everLoaded /\ ~loading
  /\ Len(scannerData) > 0 /\ EmptyRowShown
  /\ UpdatedLabel # "-"

\* The number each text of the stake inputs denotes.
TypedNumber(text) ==
  CASE text = <<"7", ".", "5">> -> Rat(15, 2)
    [] text = <<"4", "0">> -> Rat(40, 1)

\* C10: typing in the stake field leaves the typed text in the field, and
\* Place Bet, pressed while the field holds what the operator typed, posts
\* the number typed, whatever the suggestion is.
C10_StakeIsOperatorsValue ==
  [][/\ (typed' # None /\ typed' # typed) => stake' = typed'[1]
     /\ (/\ Len(betRequests') = Len(betRequests) + 1
         /\ typed # None
         /\ stake = typed[1])
          => betRequests'[Len(betRequests')].body[1].stake = TypedNumber(typed[1])
    ]_vars

\* A request in flight with the typed 7.5 while the suggestion is another
\* number.
C10_Witness ==
  /\ typed = Some(<<"7", ".", "5">>)
  /\ Suggestion # Rat(15, 2)
  /\ \E i \in DOMAIN betRequests :
       /\ betRequests[i].state = "pending"
       /\ betRequests[i].body[1].stake = Rat(15, 2)

\* The reference timestamps of the freshness specification.
Timestamps == (StartTime - MaxElapsed)..(StartTime + 60)

TierAt(t) == getStalenessInfoAt(t, now).text[1]

TierRank(tier) == CASE tier = "Fresh" -> 1 [] tier = "Aging" -> 2 [] tier = "Stale" -> 3

\* C11: with the clock fixed, if the feed's timestamp grades Stale then
\* every older non-zero timestamp grades Stale too (never Fresh or Aging);
\* more generally an older non-zero timestamp never grades fresher than a
\* newer one.
C11_FreshnessMonotone ==
  \A t \in Timestamps :
    (t # 0 /\ t < dataAge) =>
      /\ Tier = "Stale" => TierAt(t) = "Stale"
      /\ dataAge # 0 => TierRank(TierAt(t)) >= TierRank(Tier)

\* A feed graded Stale with older timestamps graded below it, and a Fresh
\* and an Aging timestamp above it.
C11_Witness ==
  /\ Tier = "Stale"
  /\ \E t \in Timestamps : t # 0 /\ t < dataAge /\ TierAt(t) = "Stale"
  /\ \E t \in Timestamps : t > dataAge /\ TierAt(t) = "Aging"
  /\ \E t \in Timestamps : t > dataAge /\ TierAt(t) = "Fresh"

\* C12: filtering the filtered list again, with the same book, threshold
\* and hide flag, gives the filtered list, entry for entry.
C12_FilterIdempotent == filterData(filteredData) = filteredData

\* A feed of which the filter drops one opportunity for its EV and one for
\* being placed, and keeps others.
C12_Witness ==
  /\ hidePlaced
  /\ \E i \in DOMAIN scannerData : scannerData[i].ev < minEv
  /\ \E i \in DOMAIN scannerData :
       scannerData[i].ev >= minEv /\ isBetPlaced(scannerData[i])
  /\ Len(filteredData) >= 1
  /\ filterData(filteredData) = filteredData

\* C13: with offered odds above 1, an EV of at least 0, a bankroll of at
\* least 0 and a risk fraction in (0, 1], the suggestion is a finite number
\* that is at least 0.
C13_StakeNonNegative ==
  (/\ selectedBet # None
   /\ selectedBet[1].danske_odds > 100
   /\ selectedBet[1].ev >= 0
   /\ bankroll >= 0
   /\ fraction \in 1..10)
    => (IsFinite(Suggestion) /\ Suggestion.n >= 0)

\* The boundary: no edge at all, at odds above 1 with money in the bankroll.
C13_Witness ==
  /\ selectedBet # None
  /\ selectedBet[1].danske_odds > 100
  /\ selectedBet[1].ev = 0
  /\ bankroll > 0
  /\ Suggestion = Rat(0, 1)

\* C14: in every state of the page the rows presented are annotated from
\* the book the filter read: a row is "placed" exactly when the page's book
\* has its Matching Key, "exposure" exactly when it has not but the book has
\* a bet on the same match, and while the hide flag is set no presented row
\* is "placed".
C14_OneBookPerPass ==
  \A i \in DOMAIN Rows :
    LET keyMatch == \E pb \in placedBets : KeyOfBet(pb) = KeyOfOpp(Rows[i].bet)
        nameMatch == \E pb \in placedBets : pb.match_name = Rows[i].bet.match
    IN /\ Rows[i].placed <=> keyMatch
       /\ Rows[i].exposure <=> (~keyMatch /\ nameMatch)
       /\ hidePlaced => ~Rows[i].placed

\* The hide flag set after a book refresh brought in a bet on an opportunity
\* of the feed that passes the threshold: the opportunity is not presented.
C14_Witness ==
  /\ hidePlaced
  /\ \E i \in DOMAIN scannerData :
       /\ scannerData[i].ev >= minEv
       /\ isBetPlaced(scannerData[i])
       /\ \A r \in DOMAIN Rows : Rows[r].bet # scannerData[i]

\* C15: whenever a place-bet request is issued, the opportunity in the
\* dialog is not "placed" in the book the page holds at that moment, and no
\* request has been issued before since the dialog was opened.
C15_OneRequestForUnplaced ==
  [][Len(betRequests') = Len(betRequests) + 1
       => (~isBetPlaced(selectedBet[1]) /\ ~confirmed)
    ]_vars

\* C16: while the dialog is open and nothing has been typed since it was
\* opened, the stake field is empty or holds the suggestion for the
\* opportunity in the dialog.
C16_NoCarriedOverStake ==
  (isOpen /\ typed = None) =>
    (stake = <<>> \/ stake = NumToString(Suggestion))

=============================================================================
